---------------------------- MODULE Spec2Model ----------------------------
(***************************************************************************)
(* Desktop sync engine of Beacon Library (desktop/src/main/sync-service.ts) *)
(* as a state machine: the persisted change queue and its single worker,   *)
(* the per-library reconciliation pass, pause/resume/stop and a process    *)
(* restart that reloads the persisted store.                               *)
(*                                                                         *)
(* Scheduling is the single JavaScript event loop: a handler runs to its   *)
(* first network await; the continuation after a settled promise is a      *)
(* microtask and runs before any other handler (Busy below).               *)
(***************************************************************************)
EXTENDS Integers, Sequences, FiniteSets, TLC

\* ------------------------------------------------------------- bounds --
MaxCalls == 4    \* calls from outside in one behaviour: file events, syncAll,
                 \* pause, resume, stop, a restart of the process, a clock tick

\* ---------------------------------------------------- program constants --
MaxSize == 6      \* file.size of an upload of the web client, in bytes
MaxChunkSize == 3 \* chunk_size of an upload session, in bytes

MaxRetries  == 3      \* if (item.retries >= 3)
Tolerance   == 1000   \* Math.abs(remoteModified - localModified) > 1000

\* ------------------------------------------------------------- inputs --
\* store.get('syncedLibraries'): the libraries a pass reconciles, in order.
syncedLibraries == << "L1", "L2" >>

\* A local path is the sequence of its components below syncFolder:
\* <<"L1","a">> is <syncFolder>/L1/a.  A remote path is the sequence of its
\* components below the library root.
\* The file events the watcher delivers: <<filePath, eventType>>.
FileEvents == { << << "L1", "a" >>, "change" >>, << << "L1", "a" >>, "unlink" >>,
                << << "L2", "a" >>, "add" >> }

\* The order in which the remote listing returns the entries of a library's
\* root directory (files and subdirectories), and the order in
\* which the directory walk of getLocalFiles meets local files.
RemoteOrder == << << "a" >>, << "b" >>, << "L1" >>, << "L2" >>, << "sub" >> >>
LocalOrder  == << << "L1", "L1", "a" >>, << "L1", "a" >>, << "L1", "b" >>,
                  << "L2", "L2", "a" >>, << "L2", "a" >> >>

\* Concurrent syncAll calls the model follows.
Slots == { 1, 2 }
\* The syncAll call followed where calls do not overlap.
OnePass == { 1 }

ClockStart == 2 * Tolerance + 1
ClockStep  == Tolerance + 1
NoSync     == 0 - 1          \* status.lastSync = null
NoItem     == << >>          \* status.currentItem = null

VARIABLES
  queue,          \* this.queue: SyncQueueItem[]
  storeQueue,     \* config.store 'syncQueue'
  conflicts,      \* this.conflicts: Conflict[]
  storeConflicts, \* config.store 'syncConflicts'
  status,         \* this.status: SyncStatus
  isProcessing,   \* this.isProcessing
  worker,         \* position of the running processQueue call
  pass,           \* position of the running syncAll call of each slot, with the
                  \* history of the transfers it made in the current library
  localFs,        \* local path -> mtimeMs, for the files that exist
  remoteFs,       \* <<library, remote path>> -> updated_at, for the files that exist
  now,            \* Date.now()
  env,            \* what is left of each bound, and the next item id
  settled,        \* history: a pass reconciled every library without an error
                  \* and no file and no conflict has changed since it left
                  \* its last library
  disk,           \* resolveConflict: local path -> content, for the files that exist
  cloud,          \* resolveConflict: <<library, file id>> -> content on the server
  resolving,      \* position of the running resolveConflict call
  upload,         \* position and locals of the running uploadFile call (web client)
  folders         \* the sync folder as the store, SyncService and FileWatcher
                  \* hold it, and the last file event with what it was mapped to

\* The variables of the desktop sync service, of conflict resolution and of
\* the web client's chunked upload.
syncVars == << queue, storeQueue, status, isProcessing, worker, pass, localFs,
              remoteFs, settled >>
resolverVars == << disk, cloud, resolving >>
clientVars == << upload >>
settingsVars == << folders >>

vars == << queue, storeQueue, conflicts, storeConflicts, status, isProcessing,
           worker, pass, localFs, remoteFs, now, env, settled, disk, cloud,
           resolving, upload, folders >>

\* ------------------------------------------------------------ helpers --
Abs(x) == IF x < 0 THEN 0 - x ELSE x

Put(f, k, v) == [ x \in (DOMAIN f) \cup {k} |-> IF x = k THEN v ELSE f[x] ]

Indices(q, st) == { i \in 1..Len(q) : q[i].status = st }

\* A find that also takes an item in error: i.status !== 'syncing'.
FirstPending_OrError(q) ==
  LET S == Indices(q, "pending") \cup Indices(q, "error")
  IN  IF S = {} THEN 0 ELSE CHOOSE i \in S : \A j \in S : i <= j

\* A find that returns the last pending item instead of the first.
FirstPending_Last(q) ==
  LET S == Indices(q, "pending")
  IN  IF S = {} THEN 0 ELSE CHOOSE i \in S : \A j \in S : i >= j

\* this.queue.find(i => i.status === 'pending'), as an index (0: none)
FirstPending(q) ==
  LET S == Indices(q, "pending")
  IN  IF S = {} THEN 0 ELSE CHOOSE i \in S : \A j \in S : i <= j

IndexOfId(q, id) ==
  LET S == { i \in 1..Len(q) : q[i].id = id }
  IN  IF S = {} THEN 0 ELSE CHOOSE i \in S : TRUE

\* this.status.pendingItems = this.queue.filter(...).length
updateStatus(st, q) ==
  [ st EXCEPT !.pendingItems = Cardinality(Indices(q, "pending")) ]

InitialStatus ==
  [ isRunning |-> FALSE, isPaused |-> FALSE, lastSync |-> NoSync,
    pendingItems |-> 0, errorItems |-> 0, currentItem |-> NoItem ]

IdleWorker == [ pc |-> "idle", item |-> 0, owner |-> 0, ok |-> TRUE ]

\* No resolveConflict call is running and none has run; no uploadFile call
\* is running.  id, resolution and outcome keep what the last call was.
IdleResolve ==
  [ pc |-> "idle", id |-> << >>, resolution |-> "", outcome |-> "none",
    libraryId |-> << >>, remotePath |-> << >>, localPath |-> << >>,
    data |-> "" ]
\* What a missing property of a response reads as (undefined): no number of
\* bytes or chunks and no upload id.
Undefined == 0 - 1

\* uploadFile has not been called.  size, onDuplicate and onConflict are its
\* arguments (file.size, options.onDuplicate, what options.onConflict
\* resolves to; "none": not given); duplicate, serverChunk and serverTotal
\* are the server's side; calls is the history of the remote calls, loaded
\* the last progress reported, answers the kinds of the answers to initUpload.
IdleUpload ==
  [ pc |-> "idle", size |-> 0, onDuplicate |-> "none", onConflict |-> "none",
    duplicate |-> FALSE, serverChunk |-> 1, serverTotal |-> 0,
    upload_id |-> Undefined, chunk_size |-> Undefined, total_chunks |-> Undefined,
    i |-> 0, parts |-> << >>, uploadedBytes |-> 0, loaded |-> 0,
    calls |-> << >>, answers |-> << >>, result |-> "none" ]

\* The sync folder is <home>/s everywhere and no file event was mapped.
\* A path is the sequence of its components.
IdleFolders ==
  [ store |-> << "home", "s" >>, service |-> << "home", "s" >>,
    watcher |-> << "home", "s" >>, mapped |-> << >> ]

IdlePass ==
  [ pc |-> "idle", lib |-> 0, listing |-> << >>, snap |-> << >>, k |-> 1,
    u |-> 1, clean |-> TRUE, after |-> FALSE, visited |-> {}, drained |-> FALSE,
    downloaded |-> << >>, uploaded |-> << >> ]

\* Continuations that run before any other handler: the synchronous part of
\* a handler, and the microtask after a promise that is already settled.
WorkerBusy == worker.pc \in { "while", "settled" }
PassBusy(p) == pass[p].pc \in { "files", "nextlib", "finish" }
Busy == WorkerBusy \/ \E p \in Slots : PassBusy(p)

\* processSyncItem: relativePath = path.relative(syncFolder, item.filePath),
\* libraryId = relativePath.split(path.sep)[0]; uploadFile(libraryId,
\* item.filePath, relativePath).
WorkerLibraryId(filePath) == Head(filePath)
WorkerRemotePath(filePath) == filePath

\* A localPath built without the library folder.
LocalPathOf_NoLibrary(lib, remotePath) == remotePath

\* syncFiles: localPath = path.join(libraryPath, remoteFile.path) and
\* relativePath = path.relative(libraryPath, localPath).
LocalPathOf(lib, remotePath) == << lib >> \o remotePath
RelativePath(lib, localPath) == Tail(localPath)

\* The remote file a local file corresponds to in a reconciliation pass.
RemoteKeyOf(localPath) == << Head(localPath), Tail(localPath) >>

\* response.data of GET /api/libraries/<lib>/browse: the entries of the
\* library's root directory, its files and its subdirectories (the listing
\* is per directory).  An entry has the fields syncFiles reads.
IsRemoteFile(lib, rp) == << lib, rp >> \in DOMAIN remoteFs
IsRemoteDirectory(lib, rp) ==
  \E key \in DOMAIN remoteFs :
    /\ key[1] = lib
    /\ Len(key[2]) > Len(rp)
    /\ SubSeq(key[2], 1, Len(rp)) = rp
RemoteListing(lib) ==
  LET Here(rp) == IsRemoteFile(lib, rp) \/ IsRemoteDirectory(lib, rp)
      ps == SelectSeq(RemoteOrder, Here)
  IN  [ i \in 1..Len(ps) |->
          [ id |-> << lib, ps[i] >>, path |-> ps[i],
            updated_at |-> IF IsRemoteFile(lib, ps[i])
                             THEN remoteFs[<< lib, ps[i] >>] ELSE 0 ] ]

\* getLocalFiles(libraryPath)
getLocalFiles(lib) ==
  LET Here(lp) == lp \in DOMAIN localFs /\ Head(lp) = lib
      ps == SelectSeq(LocalOrder, Here)
  IN  [ i \in 1..Len(ps) |-> [ path |-> ps[i], mtimeMs |-> localFs[ps[i]] ] ]

SnapPaths(snap) == { snap[i].path : i \in 1..Len(snap) }
SnapStat(snap, lp) == snap[CHOOSE i \in 1..Len(snap) : snap[i].path = lp]

\* A loop over remoteFiles that forgets localFiles.delete(localPath).
LocalOnly_KeepsListed(lib, listing, snap) == snap

\* What is left of localFiles after the loop over remoteFiles deleted every
\* remote entry's local path.
LocalOnly(lib, listing, snap) ==
  LET Listed == { LocalPathOf(lib, listing[i].path) : i \in 1..Len(listing) }
      Left(s) == s.path \notin Listed
  IN  SelectSeq(snap, Left)

\* --------------------------------------------------------------- Init --
\* The files a behaviour starts from.  <syncFolder>/L1/a and its remote file
\* are such that |local - remote| is at, below and above the tolerance, or
\* one of the two is missing, with or without a second file L1/b that exists
\* locally only; L2/a exists on the server only.
NoFile == 0 - 1
InitL1a == { [ l |-> Tolerance, r |-> 0, b |-> NoFile ],
             [ l |-> Tolerance, r |-> 1, b |-> NoFile ],
             [ l |-> Tolerance, r |-> 2 * Tolerance + 1, b |-> NoFile ],
             [ l |-> Tolerance, r |-> 2 * Tolerance + 1, b |-> Tolerance ],
             [ l |-> NoFile, r |-> 0, b |-> NoFile ],
             [ l |-> NoFile, r |-> 0, b |-> Tolerance ],
             [ l |-> Tolerance, r |-> NoFile, b |-> NoFile ] }
InitL2a == { [ l |-> NoFile, r |-> 0 ] }

FilesOf(m) == [ k \in { x \in DOMAIN m : m[x] # NoFile } |-> m[k] ]

Init ==
  /\ queue = << >>
  /\ storeQueue = << >>
  /\ conflicts = << >>
  /\ storeConflicts = << >>
  /\ status = InitialStatus
  /\ isProcessing = FALSE
  /\ worker = IdleWorker
  /\ pass = [ p \in Slots |-> IdlePass ]
  /\ \E x \in InitL1a, y \in InitL2a :
       /\ localFs = FilesOf(<< "L1", "a" >> :> x.l @@ << "L1", "b" >> :> x.b
                               @@ << "L2", "a" >> :> y.l)
       /\ remoteFs = FilesOf(RemoteKeyOf(<< "L1", "a" >>) :> x.r
                               @@ RemoteKeyOf(<< "L2", "a" >>) :> y.r)
  /\ now = ClockStart
  /\ env = [ calls |-> MaxCalls, nextId |-> 1 ]
  /\ settled = FALSE
  /\ disk = << >>
  /\ cloud = << >>
  /\ resolving = IdleResolve
  /\ folders = IdleFolders
  /\ upload = IdleUpload

\* ------------------------------------------------- change queue, worker --
\* An entry test of processQueue that forgets the pause flag.
processQueueStarts_IgnoresPause(processing, paused) == ~ processing

\* if (this.isProcessing || this.status.isPaused) return;  (processQueue)
processQueueStarts(processing, paused) == ~ (processing \/ paused)

\* A save that keeps the pending items only.
saveQueue_PendingOnly(q) == LET Pending(it) == it.status = "pending" IN SelectSeq(q, Pending)

\* saveQueue(): this.config.store.set('syncQueue', this.queue)
saveQueue(q) == q

\* queueSync(filePath, eventType)
queueSync(filePath, eventType) ==
  /\ ~ Busy
  /\ env.calls > 0
  /\ LET item == [ id |-> env.nextId, filePath |-> filePath,
                   eventType |-> eventType, retries |-> 0, status |-> "pending" ]
         q == Append(queue, item)
     IN  /\ queue' = q
         /\ storeQueue' = saveQueue(q)
         /\ status' = updateStatus(status, q)
         /\ IF ~ isProcessing /\ processQueueStarts(isProcessing, status.isPaused)
              THEN /\ isProcessing' = TRUE
                   /\ worker' = [ IdleWorker EXCEPT !.pc = "while" ]
              ELSE UNCHANGED << isProcessing, worker >>
  /\ env' = [ env EXCEPT !.calls = @ - 1, !.nextId = @ + 1 ]
  /\ UNCHANGED << conflicts, storeConflicts, pass, localFs, remoteFs, now, settled >>
  /\ UNCHANGED << resolverVars, clientVars, settingsVars >>

\* A dispatch that uploads for add events only.
DispatchAwaits_AddOnly(item) ==
  item.eventType = "add" /\ item.filePath \in DOMAIN localFs

\* The dispatch of processSyncItem reaches the network (api.post) only for an
\* add or change of a file that fs.readFileSync can read; for unlink it does
\* nothing, and for a missing file uploadFile throws before any await.
DispatchAwaits(item) ==
  item.eventType \in { "add", "change" } /\ item.filePath \in DOMAIN localFs

DispatchSettledOk(item) == item.eventType = "unlink"

\* The head of the while loop of processQueue: pick the first pending item
\* and dispatch it, or leave the loop.
processQueueLoop ==
  /\ worker.pc = "while"
  /\ LET i == FirstPending(queue)
     IN  IF Len(queue) = 0 \/ i = 0
           THEN /\ status' = [ status EXCEPT !.currentItem = NoItem ]
                /\ isProcessing' = FALSE
                /\ worker' = IdleWorker
                /\ pass' = IF worker.owner \in Slots
                             THEN [ pass EXCEPT ![worker.owner].pc = "finish" ]
                             ELSE pass
                /\ UNCHANGED queue
           ELSE /\ queue' = [ queue EXCEPT ![i].status = "syncing" ]
                /\ status' = updateStatus(
                               [ status EXCEPT !.currentItem = queue[i].filePath ],
                               queue')
                /\ worker' = [ worker EXCEPT
                                 !.pc = IF DispatchAwaits(queue[i]) THEN "await"
                                                                    ELSE "settled",
                                 !.item = queue[i].id,
                                 !.ok = DispatchSettledOk(queue[i]) ]
                /\ UNCHANGED << isProcessing, pass >>
  /\ UNCHANGED << storeQueue, conflicts, storeConflicts, localFs, remoteFs, now,
                  env, settled >>
  /\ UNCHANGED << resolverVars, clientVars, settingsVars >>

\* A retry test that is off by one.
RetriesExhausted_OffByOne(retries) == retries > MaxRetries

\* if (item.retries >= 3)
RetriesExhausted(retries) == retries >= MaxRetries

\* The rest of one loop iteration, after processSyncItem resolved (ok) or
\* threw: lines 277-294.
AfterDispatch(ok) ==
  LET i == IndexOfId(queue, worker.item)
      Keep(it) == it.id # worker.item
      failed == [ queue[i] EXCEPT !.retries = @ + 1,
                    !.status = IF RetriesExhausted(queue[i].retries + 1)
                                 THEN "error" ELSE "pending" ]
      q == IF ok THEN SelectSeq(queue, Keep) ELSE [ queue EXCEPT ![i] = failed ]
      st == IF ~ ok /\ RetriesExhausted(queue[i].retries + 1)
              THEN [ status EXCEPT !.errorItems = @ + 1 ] ELSE status
  IN  /\ i # 0
      /\ queue' = q
      /\ storeQueue' = saveQueue(q)
      /\ status' = updateStatus(st, q)
      /\ worker' = [ worker EXCEPT !.pc = "while" ]
      /\ UNCHANGED << conflicts, storeConflicts, isProcessing, pass, localFs, now, env >>

\* processSyncItem returned or threw without reaching the network.
dispatchSettled ==
  /\ worker.pc = "settled"
  /\ AfterDispatch(worker.ok)
  /\ UNCHANGED << remoteFs, settled >>
  /\ UNCHANGED << resolverVars, clientVars, settingsVars >>

\* uploadFile's api.post of the worker succeeded: the server stores the file
\* under the path it was sent with.
workerUploadOk ==
  /\ ~ Busy
  /\ worker.pc = "await"
  /\ LET item == queue[IndexOfId(queue, worker.item)]
     IN  remoteFs' = Put(remoteFs,
                         << WorkerLibraryId(item.filePath),
                            WorkerRemotePath(item.filePath) >>, now)
  /\ settled' = FALSE
  /\ AfterDispatch(TRUE)
  /\ UNCHANGED << resolverVars, clientVars, settingsVars >>

\* uploadFile's api.post of the worker failed (transport error, timeout).
workerUploadFail ==
  /\ ~ Busy
  /\ worker.pc = "await"
  /\ AfterDispatch(FALSE)
  /\ UNCHANGED << remoteFs, settled >>
  /\ UNCHANGED << resolverVars, clientVars, settingsVars >>

\* pause()
pause ==
  /\ ~ Busy
  /\ env.calls > 0
  /\ env' = [ env EXCEPT !.calls = @ - 1 ]
  /\ ~ status.isPaused
  /\ status' = [ status EXCEPT !.isPaused = TRUE ]
  /\ UNCHANGED << queue, storeQueue, conflicts, storeConflicts, isProcessing,
                  worker, pass, localFs, remoteFs, now, settled >>
  /\ UNCHANGED << resolverVars, clientVars, settingsVars >>

\* resume()
resume ==
  /\ ~ Busy
  /\ env.calls > 0
  /\ env' = [ env EXCEPT !.calls = @ - 1 ]
  /\ status' = [ status EXCEPT !.isPaused = FALSE ]
  /\ IF processQueueStarts(isProcessing, FALSE)
       THEN /\ isProcessing' = TRUE
            /\ worker' = [ IdleWorker EXCEPT !.pc = "while" ]
       ELSE UNCHANGED << isProcessing, worker >>
  /\ UNCHANGED << queue, storeQueue, conflicts, storeConflicts, pass, localFs,
                  remoteFs, now, settled >>
  /\ UNCHANGED << resolverVars, clientVars, settingsVars >>

\* stop(): stopAutoSync(); saveQueue()
stop ==
  /\ ~ Busy
  /\ env.calls > 0
  /\ env' = [ env EXCEPT !.calls = @ - 1 ]
  /\ storeQueue # queue
  /\ storeQueue' = saveQueue(queue)
  /\ UNCHANGED << queue, conflicts, storeConflicts, status, isProcessing, worker,
                  pass, localFs, remoteFs, now, settled >>
  /\ UNCHANGED << resolverVars, clientVars, settingsVars >>

\* The process ends (quit or crash) and starts again: the constructor loads
\* the queue and the conflicts from the store, everything else is as
\* constructed, and every call that was in flight is gone.
restart ==
  /\ ~ Busy
  /\ env.calls > 0
  /\ queue' = storeQueue
  /\ conflicts' = storeConflicts
  /\ status' = InitialStatus
  /\ isProcessing' = FALSE
  /\ worker' = IdleWorker
  /\ pass' = [ p \in Slots |-> IdlePass ]
  /\ env' = [ env EXCEPT !.calls = @ - 1 ]
  /\ UNCHANGED << storeQueue, storeConflicts, localFs, remoteFs, now, settled >>
  /\ UNCHANGED << resolverVars, clientVars, settingsVars >>

\* Time passes.
tick ==
  /\ ~ Busy
  /\ env.calls > 0
  /\ now' = now + ClockStep
  /\ env' = [ env EXCEPT !.calls = @ - 1 ]
  /\ UNCHANGED << queue, storeQueue, conflicts, storeConflicts, status,
                  isProcessing, worker, pass, localFs, remoteFs, settled >>
  /\ UNCHANGED << resolverVars, clientVars, settingsVars >>

\* ------------------------------------------------------ reconciliation --
\* A threshold test that counts the boundary as a conflict.
IsConflict_Inclusive(remoteModified, localModified) ==
  Abs(remoteModified - localModified) >= Tolerance

\* Math.abs(remoteModified - localModified) > 1000
IsConflict(remoteModified, localModified) ==
  Abs(remoteModified - localModified) > Tolerance

ConflictIds(cs) == { cs[i].id : i \in 1..Len(cs) }

\* id: `${libraryId}-${remoteFile.id}`
ConflictId(lib, fileId) == << lib, fileId >>

\* addConflict(conflict): appended unless a conflict with that id is stored
addConflict(cs, c) == IF c.id \in ConflictIds(cs) THEN cs ELSE Append(cs, c)

\* syncAll(), up to its first await
syncAll(p) ==
  /\ ~ Busy
  /\ env.calls > 0
  /\ env' = [ env EXCEPT !.calls = @ - 1 ]
  /\ pass[p].pc = "idle"
  /\ ~ (status.isPaused \/ isProcessing)
  /\ status' = [ status EXCEPT !.isRunning = TRUE ]
  /\ pass' = [ pass EXCEPT ![p] = [ IdlePass EXCEPT !.pc = "nextlib",
                                                     !.after = settled ] ]
  /\ UNCHANGED << queue, storeQueue, conflicts, storeConflicts, isProcessing,
                  worker, localFs, remoteFs, now, settled >>
  /\ UNCHANGED << resolverVars, clientVars, settingsVars >>

\* for (const libraryId of syncedLibraries) await this.syncLibrary(libraryId);
\* await this.processQueue();
nextLibrary(p) ==
  /\ pass[p].pc = "nextlib"
  /\ IF pass[p].lib < Len(syncedLibraries)
       THEN /\ pass' = [ pass EXCEPT ![p].pc = "browse", ![p].lib = @ + 1,
                           ![p].listing = << >>, ![p].snap = << >>,
                           ![p].k = 1, ![p].u = 1,
                           ![p].downloaded = << >>, ![p].uploaded = << >>,
                           ![p].visited = @ \cup { pass[p].lib + 1 } ]
            /\ UNCHANGED << isProcessing, worker, settled >>
       ELSE /\ settled' = IF pass[p].clean THEN TRUE ELSE settled
            /\ IF processQueueStarts(isProcessing, status.isPaused)
                 THEN /\ isProcessing' = TRUE
                      /\ worker' = [ IdleWorker EXCEPT !.pc = "while", !.owner = p ]
                      /\ pass' = [ pass EXCEPT ![p].pc = "drain",
                                               ![p].drained = TRUE ]
                 ELSE /\ pass' = [ pass EXCEPT ![p].pc = "finish",
                                               ![p].drained = TRUE ]
                      /\ UNCHANGED << isProcessing, worker >>
  /\ UNCHANGED << queue, storeQueue, conflicts, storeConflicts, status, localFs,
                  remoteFs, now, env >>
  /\ UNCHANGED << resolverVars, clientVars, settingsVars >>

\* syncLibrary: the listing arrived; take the local snapshot and enter syncFiles
browseOk(p) ==
  /\ ~ Busy
  /\ pass[p].pc = "browse"
  /\ LET lib == syncedLibraries[pass[p].lib]
     IN  pass' = [ pass EXCEPT ![p].pc = "files",
                               ![p].listing = RemoteListing(lib),
                               ![p].snap = getLocalFiles(lib) ]
  /\ UNCHANGED << queue, storeQueue, conflicts, storeConflicts, status,
                  isProcessing, worker, localFs, remoteFs, now, env, settled >>
  /\ UNCHANGED << resolverVars, clientVars, settingsVars >>

\* A syncLibrary without its catch: the error ends syncAll's loop.
syncLibraryCatch_Rethrows(p) == [ pass EXCEPT ![p].pc = "finish", ![p].clean = FALSE ]

\* syncLibrary's catch: the error of this library is logged, the pass goes on
syncLibraryCatch(p) == [ pass EXCEPT ![p].pc = "nextlib", ![p].clean = FALSE ]

\* syncLibrary: the listing failed
browseFail(p) ==
  /\ ~ Busy
  /\ pass[p].pc = "browse"
  /\ pass' = syncLibraryCatch(p)
  /\ UNCHANGED << queue, storeQueue, conflicts, storeConflicts, status,
                  isProcessing, worker, localFs, remoteFs, now, env, settled >>
  /\ UNCHANGED << resolverVars, clientVars, settingsVars >>

\* syncFiles: one step of the loop over remoteFiles, then of the loop over
\* the local-only files, up to the next await
syncFiles(p) ==
  /\ pass[p].pc = "files"
  /\ LET lib == syncedLibraries[pass[p].lib]
         listing == pass[p].listing
         snap == pass[p].snap
         k == pass[p].k
         rest == LocalOnly(lib, listing, snap)
     IN  IF k <= Len(listing)
           THEN LET remoteFile == listing[k]
                    localPath == LocalPathOf(lib, remoteFile.path)
                IN  IF localPath \notin SnapPaths(snap)
                      THEN /\ pass' = [ pass EXCEPT ![p].pc = "download" ]
                           /\ UNCHANGED << conflicts, storeConflicts, settled >>
                      ELSE LET localStat == SnapStat(snap, localPath)
                               c == [ id |-> ConflictId(lib, remoteFile.id),
                                      localPath |-> localPath,
                                      remotePath |-> remoteFile.path,
                                      localModified |-> localStat.mtimeMs,
                                      remoteModified |-> remoteFile.updated_at,
                                      type |-> "both_modified" ]
                               cs == IF IsConflict(remoteFile.updated_at,
                                                   localStat.mtimeMs)
                                       THEN addConflict(conflicts, c)
                                       ELSE conflicts
                           IN  /\ conflicts' = cs
                               /\ storeConflicts' =
                                    IF cs # conflicts THEN cs ELSE storeConflicts
                               /\ settled' = IF cs # conflicts THEN FALSE ELSE settled
                               /\ pass' = [ pass EXCEPT ![p].k = @ + 1 ]
           ELSE /\ IF pass[p].u <= Len(rest)
                     THEN IF rest[pass[p].u].path \in DOMAIN localFs
                            THEN pass' = [ pass EXCEPT ![p].pc = "upload" ]
                            ELSE pass' = syncLibraryCatch(p)
                     ELSE pass' = [ pass EXCEPT ![p].pc = "nextlib" ]
                /\ UNCHANGED << conflicts, storeConflicts, settled >>
  /\ UNCHANGED << queue, storeQueue, status, isProcessing, worker, localFs,
                  remoteFs, now, env >>
  /\ UNCHANGED << resolverVars, clientVars, settingsVars >>

\* downloadFile succeeded: fs.writeFileSync(localPath, ...) stamps the file
\* with the time of the write
downloadOk(p) ==
  /\ ~ Busy
  /\ pass[p].pc = "download"
  /\ LET lib == syncedLibraries[pass[p].lib]
         remoteFile == pass[p].listing[pass[p].k]
     IN  /\ remoteFile.id \in DOMAIN remoteFs
         /\ localFs' = Put(localFs, LocalPathOf(lib, remoteFile.path), now)
         /\ pass' = [ pass EXCEPT
                        ![p].pc = "files", ![p].k = @ + 1,
                        ![p].downloaded =
                           Append(@, LocalPathOf(lib, remoteFile.path)) ]
  /\ settled' = FALSE
  /\ UNCHANGED << queue, storeQueue, conflicts, storeConflicts, status,
                  isProcessing, worker, remoteFs, now, env >>
  /\ UNCHANGED << resolverVars, clientVars, settingsVars >>

\* downloadFile threw: syncFiles and syncLibrary end for this library
downloadFail(p) ==
  /\ ~ Busy
  /\ pass[p].pc = "download"
  /\ pass' = syncLibraryCatch(p)
  /\ UNCHANGED << queue, storeQueue, conflicts, storeConflicts, status,
                  isProcessing, worker, localFs, remoteFs, now, env, settled >>
  /\ UNCHANGED << resolverVars, clientVars, settingsVars >>

\* uploadFile of a local-only file succeeded
uploadOk(p) ==
  /\ ~ Busy
  /\ pass[p].pc = "upload"
  /\ LET lib == syncedLibraries[pass[p].lib]
         rest == LocalOnly(lib, pass[p].listing, pass[p].snap)
         localPath == rest[pass[p].u].path
     IN  /\ remoteFs' = Put(remoteFs, << lib, RelativePath(lib, localPath) >>, now)
         /\ pass' = [ pass EXCEPT ![p].pc = "files", ![p].u = @ + 1,
                                  ![p].uploaded = Append(@, localPath) ]
  /\ settled' = FALSE
  /\ UNCHANGED << queue, storeQueue, conflicts, storeConflicts, status,
                  isProcessing, worker, localFs, now, env >>
  /\ UNCHANGED << resolverVars, clientVars, settingsVars >>

\* uploadFile threw: syncFiles and syncLibrary end for this library
uploadFail(p) ==
  /\ ~ Busy
  /\ pass[p].pc = "upload"
  /\ pass' = syncLibraryCatch(p)
  /\ UNCHANGED << queue, storeQueue, conflicts, storeConflicts, status,
                  isProcessing, worker, localFs, remoteFs, now, env, settled >>
  /\ UNCHANGED << resolverVars, clientVars, settingsVars >>

\* syncAll after await this.processQueue(): lastSync, isRunning
syncAllFinish(p) ==
  /\ pass[p].pc = "finish"
  /\ status' = [ status EXCEPT !.lastSync = now, !.isRunning = FALSE ]
  /\ pass' = [ pass EXCEPT ![p] = IdlePass ]
  /\ UNCHANGED << queue, storeQueue, conflicts, storeConflicts, isProcessing,
                  worker, localFs, remoteFs, now, env, settled >>
  /\ UNCHANGED << resolverVars, clientVars, settingsVars >>

\* ----------------------------------------------------------------- Next --
Next ==
  \/ \E ev \in FileEvents : queueSync(ev[1], ev[2])
  \/ processQueueLoop
  \/ dispatchSettled
  \/ workerUploadOk
  \/ workerUploadFail
  \/ pause
  \/ resume
  \/ stop
  \/ restart
  \/ tick
  \/ \E p \in OnePass : syncAll(p)
  \/ \E p \in Slots : nextLibrary(p)
  \/ \E p \in Slots : browseOk(p)
  \/ \E p \in Slots : browseFail(p)
  \/ \E p \in Slots : syncFiles(p)
  \/ \E p \in Slots : downloadOk(p)
  \/ \E p \in Slots : downloadFail(p)
  \/ \E p \in Slots : uploadOk(p)
  \/ \E p \in Slots : uploadFail(p)
  \/ \E p \in Slots : syncAllFinish(p)

Spec == Init /\ [][Next]_vars

\* The scheduling the event loop and the network give: a pending
\* continuation runs, and a remote call returns or fails.
WorkerStep == processQueueLoop \/ dispatchSettled \/ workerUploadOk \/ workerUploadFail
PassStep ==
  \E p \in Slots : \/ nextLibrary(p) \/ browseOk(p) \/ browseFail(p) \/ syncFiles(p)
                   \/ downloadOk(p) \/ downloadFail(p) \/ uploadOk(p)
                   \/ uploadFail(p) \/ syncAllFinish(p)

FairSpec == Init /\ [][Next]_vars /\ WF_vars(WorkerStep) /\ WF_vars(PassStep)

\* ------------------------------------------------- overlapping syncAll --
\* syncAll is called by the auto-sync timer (startAutoSync), by the tray's
\* 'Sync Now' item and by the sync:syncNow handler, each whether or not an
\* earlier call has returned.  File events arrive in between.
OverlapNext ==
  \/ \E ev \in FileEvents : queueSync(ev[1], ev[2])
  \/ processQueueLoop
  \/ dispatchSettled
  \/ workerUploadOk
  \/ workerUploadFail
  \/ \E p \in Slots : syncAll(p)
  \/ \E p \in Slots : nextLibrary(p)
  \/ \E p \in Slots : browseOk(p)
  \/ \E p \in Slots : browseFail(p)
  \/ \E p \in Slots : syncFiles(p)
  \/ \E p \in Slots : downloadOk(p)
  \/ \E p \in Slots : downloadFail(p)
  \/ \E p \in Slots : uploadOk(p)
  \/ \E p \in Slots : uploadFail(p)
  \/ \E p \in Slots : syncAllFinish(p)

\* The behaviours followed start with L1/a on both sides and L1/b local only.
OverlapInit == Init /\ << "L1", "b" >> \in DOMAIN localFs

OverlapSpec == OverlapInit /\ [][OverlapNext]_vars

\* ------------------------------------------------------- sanity of the model --
\* ------------------------------------------------ first sync of a library --
\* The first synchronisation of new libraries: nothing local, nothing queued,
\* no conflict; the remote library L1 holds a file at its root, a file in a
\* subdirectory, or both.  The remote answers every call it can answer, the
\* user touches no file, and the file watcher is connected to queueSync.
StabilityThreshold == 2000   \* awaitWriteFinish.stabilityThreshold

FirstSyncRemote ==
  { (<< "L1", << "a" >> >> :> 0),
    (<< "L1", << "a" >> >> :> 0) @@ (<< "L1", << "sub", "b" >> >> :> 0),
    (<< "L1", << "sub", "b" >> >> :> 0),
    (<< "L1", << "a" >> >> :> 1) @@ (<< "L1", << "b" >> >> :> 0) }

FirstSyncInit ==
  /\ queue = << >>
  /\ storeQueue = << >>
  /\ conflicts = << >>
  /\ storeConflicts = << >>
  /\ status = InitialStatus
  /\ isProcessing = FALSE
  /\ worker = IdleWorker
  /\ pass = [ p \in Slots |-> IdlePass ]
  /\ localFs = << >>
  /\ \E r \in FirstSyncRemote : remoteFs = r @@ (<< "L2", << "a" >> >> :> 0)
  /\ now = ClockStart
  /\ env = [ calls |-> MaxCalls, nextId |-> 1 ]
  /\ settled = FALSE
  /\ disk = << >>
  /\ cloud = << >>
  /\ resolving = IdleResolve
  /\ folders = IdleFolders
  /\ upload = IdleUpload

\* The watcher's 'add' for a file that appeared in the sync folder and has
\* been stable for the threshold: onFileChange -> queueSync(filePath, 'add').
\* One event per new file: none while its item is queued or once the worker
\* has uploaded it.
watcherAdd ==
  \E lp \in DOMAIN localFs :
    /\ now >= localFs[lp] + StabilityThreshold
    /\ \A i \in 1..Len(queue) : queue[i].filePath # lp
    /\ << WorkerLibraryId(lp), WorkerRemotePath(lp) >> \notin DOMAIN remoteFs
    /\ queueSync(lp, "add")

\* GET /api/files/<id>/download for an entry that is no file (a directory).
downloadRefused(p) ==
  /\ pass[p].pc = "download"
  /\ pass[p].listing[pass[p].k].id \notin DOMAIN remoteFs
  /\ downloadFail(p)

FirstSyncNext ==
  \/ watcherAdd
  \/ processQueueLoop
  \/ workerUploadOk
  \/ tick
  \/ \E p \in OnePass : syncAll(p)
  \/ \E p \in Slots : nextLibrary(p)
  \/ \E p \in Slots : browseOk(p)
  \/ \E p \in Slots : syncFiles(p)
  \/ \E p \in Slots : downloadOk(p)
  \/ \E p \in Slots : downloadRefused(p)
  \/ \E p \in Slots : syncAllFinish(p)

FirstSyncSpec == FirstSyncInit /\ [][FirstSyncNext]_vars

\* --------------------------------------------------- conflict resolution --
\* resolveConflict works on strings.  A string is the sequence of its
\* characters; "_local_" and the digits of a timestamp are one element each.
\* The sync folder is "s", paths use "/".
LastIndexOf(str, ch) ==
  LET S == { i \in 1..Len(str) : str[i] = ch }
  IN  IF S = {} THEN 0 ELSE CHOOSE i \in S : \A j \in S : i >= j

IndexOf(str, ch) ==
  LET S == { i \in 1..Len(str) : str[i] = ch }
  IN  IF S = {} THEN 0 ELSE CHOOSE i \in S : \A j \in S : i <= j

\* path.extname(p): from the last "." of the last path segment to the end;
\* empty when the segment has no "." or only a leading one.
extname(p) ==
  LET b == LastIndexOf(p, "/") + 1
      d == LastIndexOf(p, ".")
  IN  IF d <= b THEN << >> ELSE SubSeq(p, d, Len(p))

\* str.slice(0, -n): -0 is 0, so slice(0, -0) is the empty string.
sliceToMinus(str, n) == IF n = 0 THEN << >> ELSE SubSeq(str, 1, Len(str) - n)

\* str.split(sep)
RECURSIVE split(_, _)
split(str, sep) ==
  LET i == IndexOf(str, sep)
  IN  IF i = 0 THEN << str >>
      ELSE << SubSeq(str, 1, i - 1) >> \o split(SubSeq(str, i + 1, Len(str)), sep)

\* `${base}_local_${Date.now()}${ext}`
newLocalOf(localPath, t) ==
  LET ext == extname(localPath)
      base == sliceToMinus(localPath, Len(ext))
  IN  base \o << "_local_", t >> \o ext

\* const parts is declared in the keep_local case: in the other cases an
\* access to parts throws (it is read before its declaration ran).
PartsInitialized(resolution) == resolution = "keep_local"

Resolutions == { "keep_local", "keep_remote", "keep_both", "other" }

\* Stored conflicts are what syncFiles stores: id `${libraryId}-${fileId}`,
\* localPath = path.join(libraryPath, remoteFile.path).
ResolveLibrary == << "L" >>
ResolveFileIds == { << "f" >>, << "f", "-", "g" >> }
ResolveRemotePaths == { << "a", ".", "t" >>, << "a" >>, << ".", "a" >> }
storedConflict(libraryId, fileId, remotePath) ==
  [ id |-> libraryId \o << "-" >> \o fileId,
    localPath |-> << "s", "/" >> \o libraryId \o << "/" >> \o remotePath,
    remotePath |-> remotePath,
    localModified |-> 2 * Tolerance + 1, remoteModified |-> 0,
    type |-> "both_modified" ]

\* Ids a caller may pass: those of the stored conflicts and one of no conflict.
UnknownId == << "L", "-", "x" >>

ResolveInitOf(libraryIds, fileIds, remotePaths) ==
  /\ queue = << >>
  /\ storeQueue = << >>
  /\ status = InitialStatus
  /\ isProcessing = FALSE
  /\ worker = IdleWorker
  /\ pass = [ p \in Slots |-> IdlePass ]
  /\ localFs = << >>
  /\ remoteFs = << >>
  /\ settled = FALSE
  /\ now = ClockStart
  /\ env = [ calls |-> MaxCalls, nextId |-> 1 ]
  /\ upload = IdleUpload
  /\ resolving = IdleResolve
  /\ folders = IdleFolders
  /\ \E libraryId \in libraryIds, fileId \in fileIds, remotePath \in remotePaths,
        localThere \in BOOLEAN :
       LET c == storedConflict(libraryId, fileId, remotePath)
       IN  /\ conflicts = << c >>
           /\ storeConflicts = << c >>
           /\ disk = IF localThere THEN (c.localPath :> "local") ELSE << >>
           /\ cloud = (<< libraryId, remotePath >> :>
                         [ id |-> fileId, data |-> "remote" ])

ResolveInit == ResolveInitOf({ ResolveLibrary }, ResolveFileIds, ResolveRemotePaths)

ConflictOf(cs, id) == cs[CHOOSE i \in 1..Len(cs) : cs[i].id = id]
WithoutConflict(cs, id) == LET Keep(c) == c.id # id IN SelectSeq(cs, Keep)

\* The end of resolveConflict: the conflict leaves the memory and the store.
resolveDone(id) ==
  /\ conflicts' = WithoutConflict(conflicts, id)
  /\ storeConflicts' = WithoutConflict(conflicts, id)

\* resolveConflict(conflictId, resolution), up to its first await or its end.
resolveConflict(conflictId, resolution) ==
  /\ resolving.pc = "idle"
  /\ env.calls > 0
  /\ env' = [ env EXCEPT !.calls = @ - 1 ]
  /\ LET call == [ IdleResolve EXCEPT !.id = conflictId, !.resolution = resolution ]
     IN
     IF conflictId \notin ConflictIds(conflicts)
       THEN /\ resolving' = [ call EXCEPT !.outcome = "absent" ]
            /\ UNCHANGED << conflicts, storeConflicts, disk >>
       ELSE
         LET conflict == ConflictOf(conflicts, conflictId)
             parts == split(conflictId, "-")
         IN  CASE resolution = "keep_local" ->
                    \* uploadFile reads the file before its await
                    /\ IF conflict.localPath \in DOMAIN disk
                         THEN resolving' =
                                [ call EXCEPT !.pc = "upload",
                                              !.libraryId = parts[1],
                                              !.remotePath = conflict.remotePath,
                                              !.localPath = conflict.localPath,
                                              !.data = disk[conflict.localPath] ]
                         ELSE resolving' = [ call EXCEPT !.outcome = "threw" ]
                    /\ UNCHANGED << conflicts, storeConflicts, disk >>
              [] resolution = "keep_remote" ->
                    /\ IF PartsInitialized(resolution)
                         THEN resolving' = [ call EXCEPT !.pc = "download",
                                                         !.libraryId = parts[1],
                                                         !.remotePath = parts[2],
                                                         !.localPath = conflict.localPath ]
                         ELSE resolving' = [ call EXCEPT !.outcome = "threw" ]
                    /\ UNCHANGED << conflicts, storeConflicts, disk >>
              [] resolution = "keep_both" ->
                    \* fs.renameSync runs before the arguments of downloadFile
                    IF conflict.localPath \notin DOMAIN disk
                      THEN /\ resolving' = [ call EXCEPT !.outcome = "threw" ]
                           /\ UNCHANGED << conflicts, storeConflicts, disk >>
                      ELSE /\ disk' =
                                LET newLocal == newLocalOf(conflict.localPath, now)
                                    rest == [ q \in DOMAIN disk \ { conflict.localPath }
                                                |-> disk[q] ]
                                IN  Put(rest, newLocal, disk[conflict.localPath])
                           /\ IF PartsInitialized(resolution)
                                THEN resolving' =
                                       [ call EXCEPT !.pc = "download",
                                                     !.libraryId = parts[1],
                                                     !.remotePath = parts[2],
                                                     !.localPath = conflict.localPath ]
                                ELSE resolving' = [ call EXCEPT !.outcome = "threw" ]
                           /\ UNCHANGED << conflicts, storeConflicts >>
              [] OTHER ->
                    \* no case of the switch matches
                    /\ resolving' = [ call EXCEPT !.outcome = "removed" ]
                    /\ resolveDone(conflictId)
                    /\ UNCHANGED disk
  /\ UNCHANGED << cloud, now >>
  /\ UNCHANGED << syncVars, clientVars, settingsVars >>

\* The awaited uploadFile or downloadFile of resolveConflict succeeded.  An
\* upload stores the file under the path it was sent with; a download
\* (remotePath holds the file id it asked for) writes the local file.
resolveTransferOk ==
  /\ resolving.pc \in { "upload", "download" }
  /\ IF resolving.pc = "upload"
       THEN /\ cloud' = Put(cloud, << resolving.libraryId, resolving.remotePath >>,
                            [ id |-> IF << resolving.libraryId, resolving.remotePath >>
                                          \in DOMAIN cloud
                                       THEN cloud[<< resolving.libraryId,
                                                     resolving.remotePath >>].id
                                       ELSE << "n" >>,
                              data |-> resolving.data ])
            /\ UNCHANGED disk
       ELSE /\ \E key \in DOMAIN cloud :
                 /\ cloud[key].id = resolving.remotePath
                 /\ disk' = Put(disk, resolving.localPath, cloud[key].data)
            /\ UNCHANGED cloud
  /\ resolveDone(resolving.id)
  /\ resolving' = [ resolving EXCEPT !.pc = "idle", !.outcome = "removed" ]
  /\ UNCHANGED << now, env >>
  /\ UNCHANGED << syncVars, clientVars, settingsVars >>

\* The awaited transfer failed: resolveConflict rejects, the conflict stays.
resolveTransferFail ==
  /\ resolving.pc \in { "upload", "download" }
  /\ resolving' = [ resolving EXCEPT !.pc = "idle", !.outcome = "failed" ]
  /\ UNCHANGED << conflicts, storeConflicts, disk, cloud, now, env >>
  /\ UNCHANGED << syncVars, clientVars, settingsVars >>

\* Time passes between two calls.
resolveTick ==
  /\ resolving.pc = "idle"
  /\ env.calls > 0
  /\ env' = [ env EXCEPT !.calls = @ - 1 ]
  /\ now' = now + ClockStep
  /\ UNCHANGED << conflicts, storeConflicts, disk, cloud, resolving >>
  /\ UNCHANGED << syncVars, clientVars, settingsVars >>

ResolveNext ==
  \/ \E id \in ConflictIds(conflicts) \cup { UnknownId }, resolution \in Resolutions :
       resolveConflict(id, resolution)
  \/ resolveTransferOk
  \/ resolveTransferFail
  \/ resolveTick

ResolveSpec == ResolveInit /\ [][ResolveNext]_vars

\* Conflicts of libraries and files whose ids are UUID-like: they hold "-".
DashedLibraryIds == { << "L" >>, << "L", "-", "M" >> }
DashedFileIds == { << "f" >>, << "f", "-", "g" >>, << "M", "-", "f" >> }
ConflictIdInit == ResolveInitOf(DashedLibraryIds, DashedFileIds, ResolveRemotePaths)
ConflictIdSpec == ConflictIdInit /\ [][ResolveNext]_vars

\* ------------------------------------------- web client: chunked upload --
Min(a, b) == IF a < b THEN a ELSE b
Max(a, b) == IF a > b THEN a ELSE b
Ceil(a, b) == (a + b - 1) \div b

\* options.onDuplicate || 'ask'  (initUpload)
sentPolicy(onDuplicate) == IF onDuplicate = "none" THEN "ask" ELSE onDuplicate

\* POST /files/upload/init: with policy ask and a file of that name present
\* the server answers with a DuplicateConflict, otherwise with a session.
serverInit(policy, u) ==
  IF u.duplicate /\ policy = "ask"
    THEN [ conflict |-> TRUE ]
    ELSE [ upload_id |-> 1, chunk_size |-> u.serverChunk,
           total_chunks |-> u.serverTotal ]

\* A check that takes every answer for a session.
hasConflict_Never(response) == FALSE

\* 'conflict' in initResponse && initResponse.conflict
hasConflict(response) == "conflict" \in DOMAIN response /\ response.conflict

\* const { upload_id, chunk_size, total_chunks } = uploadInit
field(response, name) ==
  IF name \in DOMAIN response THEN response[name] ELSE Undefined

\* i < total_chunks: a comparison with undefined is false
lessThan(i, n) == n # Undefined /\ i < n

\* A part number that starts at 0.
partNumber_ZeroBased(i) == i

\* uploadPart(upload_id, i + 1, chunk)
partNumber(i) == i + 1

\* A start that skips the first chunk.
chunkStart_OneBased(i, chunk_size) == (i + 1) * chunk_size

\* const start = i * chunk_size; const end = Math.min(start + chunk_size, file.size)
chunkStart(i, chunk_size) == i * chunk_size
chunkEnd(start, chunk_size, size) == Min(start + chunk_size, size)

\* file.slice(start, end): the bytes [from, to) of the file, clamped to it
fileSlice(size, start, end) ==
  LET from == Min(Max(start, 0), size)
      to == Min(Max(end, 0), size)
  IN  [ from |-> from, to |-> Max(to, from) ]

\* The sizes and sessions of the uploads followed: every small size and chunk
\* size, and the 10 MB file in 4 MB chunks.  The server's total_chunks is
\* the number of chunks of the file, or one less, or one more.
UploadSizes ==
  { << size, chunk >> : size \in 0..MaxSize, chunk \in 1..MaxChunkSize }
    \cup { << 10000000, 4000000 >> }
Policies == { "none", "ask", "overwrite", "rename" }
Decisions == { "none", "overwrite", "rename", "cancel" }

UploadInit ==
  /\ queue = << >>
  /\ storeQueue = << >>
  /\ conflicts = << >>
  /\ storeConflicts = << >>
  /\ status = InitialStatus
  /\ isProcessing = FALSE
  /\ worker = IdleWorker
  /\ pass = [ p \in Slots |-> IdlePass ]
  /\ localFs = << >>
  /\ remoteFs = << >>
  /\ settled = FALSE
  /\ now = ClockStart
  /\ env = [ calls |-> MaxCalls, nextId |-> 1 ]
  /\ disk = << >>
  /\ cloud = << >>
  /\ resolving = IdleResolve
  /\ folders = IdleFolders
  /\ \E sc \in UploadSizes, d \in -1..1, onDuplicate \in Policies,
        onConflict \in Decisions, duplicate \in BOOLEAN :
       /\ Ceil(sc[1], sc[2]) + d >= 0
       /\ upload = [ IdleUpload EXCEPT
                       !.size = sc[1], !.serverChunk = sc[2],
                       !.serverTotal = Ceil(sc[1], sc[2]) + d,
                       !.onDuplicate = onDuplicate, !.onConflict = onConflict,
                       !.duplicate = duplicate ]

UploadFrame ==
  /\ UNCHANGED << conflicts, storeConflicts, now, env >>
  /\ UNCHANGED << syncVars, resolverVars, settingsVars >>

\* The loop over the chunks, from its test to the next await: the next part
\* is sent, or completeUpload is.
enterLoop(u) ==
  IF lessThan(u.i, u.total_chunks)
    THEN LET start == chunkStart(u.i, u.chunk_size)
             end == chunkEnd(start, u.chunk_size, u.size)
             chunk == fileSlice(u.size, start, end)
         IN  [ u EXCEPT !.pc = "part",
                        !.calls = Append(@, [ call |-> "uploadPart",
                                              upload_id |-> u.upload_id,
                                              part_number |-> partNumber(u.i),
                                              chunk |-> chunk ]) ]
    ELSE [ u EXCEPT !.pc = "complete",
                    !.calls = Append(@, [ call |-> "completeUpload",
                                          upload_id |-> u.upload_id,
                                          parts |-> u.parts ]) ]

\* uploadFile(libraryId, file, options), up to the first initUpload
uploadFile ==
  /\ upload.pc = "idle"
  /\ upload' = [ upload EXCEPT
                   !.pc = "init",
                   !.calls = Append(@, [ call |-> "initUpload",
                                         on_duplicate |-> sentPolicy(upload.onDuplicate) ]) ]
  /\ UploadFrame

\* initUpload returned.  The first answer is tested for a conflict; the
\* answer to the retry is taken for a session as it is.
initReturns ==
  /\ upload.pc \in { "init", "reinit" }
  /\ LET response == serverInit(upload.calls[Len(upload.calls)].on_duplicate, upload)
         kind == IF "conflict" \in DOMAIN response THEN "conflict" ELSE "session"
         session == [ upload EXCEPT
                        !.answers = Append(@, kind),
                        !.upload_id = field(response, "upload_id"),
                        !.chunk_size = field(response, "chunk_size"),
                        !.total_chunks = field(response, "total_chunks"),
                        !.i = 0, !.parts = << >>, !.uploadedBytes = 0 ]
     IN  IF upload.pc = "init" /\ hasConflict(response)
           THEN IF upload.onConflict # "none"
                  THEN upload' = [ upload EXCEPT !.pc = "callback",
                                                 !.answers = Append(@, kind) ]
                  ELSE upload' = [ upload EXCEPT !.pc = "done", !.result = "error",
                                                 !.answers = Append(@, kind) ]
           ELSE upload' = enterLoop(session)
  /\ UploadFrame

\* initUpload failed: uploadFile rejects.
initFails ==
  /\ upload.pc \in { "init", "reinit" }
  /\ upload' = [ upload EXCEPT !.pc = "done", !.result = "error" ]
  /\ UploadFrame

\* options.onConflict(initResponse) resolved.
onConflictReturns ==
  /\ upload.pc = "callback"
  /\ IF upload.onConflict = "cancel"
       THEN upload' = [ upload EXCEPT !.pc = "done", !.result = "null" ]
       ELSE upload' = [ upload EXCEPT
                          !.pc = "reinit",
                          !.calls = Append(@, [ call |-> "initUpload",
                                                on_duplicate |-> upload.onConflict ]) ]
  /\ UploadFrame

\* uploadPart returned: the part is recorded, progress is reported, and the
\* loop goes on.
partReturns ==
  /\ upload.pc = "part"
  /\ LET sent == upload.calls[Len(upload.calls)]
         size_bytes == sent.chunk.to - sent.chunk.from
         partResponse == [ part_number |-> sent.part_number,
                           size_bytes |-> size_bytes ]
     IN  upload' = enterLoop([ upload EXCEPT
                                 !.parts = Append(@, partResponse),
                                 !.uploadedBytes = @ + size_bytes,
                                 !.loaded = upload.uploadedBytes + size_bytes,
                                 !.i = @ + 1 ])
  /\ UploadFrame

\* uploadPart failed: uploadFile rejects.
partFails ==
  /\ upload.pc = "part"
  /\ upload' = [ upload EXCEPT !.pc = "done", !.result = "error" ]
  /\ UploadFrame

\* completeUpload returned: uploadFile returns result.file.
completeReturns ==
  /\ upload.pc = "complete"
  /\ upload' = [ upload EXCEPT !.pc = "done", !.result = "file" ]
  /\ UploadFrame

\* completeUpload failed: uploadFile rejects.
completeFails ==
  /\ upload.pc = "complete"
  /\ upload' = [ upload EXCEPT !.pc = "done", !.result = "error" ]
  /\ UploadFrame

UploadNext ==
  \/ uploadFile
  \/ initReturns
  \/ initFails
  \/ onConflictReturns
  \/ partReturns
  \/ partFails
  \/ completeReturns
  \/ completeFails

UploadSpec == UploadInit /\ [][UploadNext]_vars

\* -------------------------------------------------------- sync folder --
\* path.relative(from, to) for absolute paths: ".." for every component of
\* from below the common prefix, then the rest of to.
CommonPrefix(a, b) ==
  LET S == { n \in 0..Min(Len(a), Len(b)) : SubSeq(a, 1, n) = SubSeq(b, 1, n) }
  IN  CHOOSE n \in S : \A k \in S : k <= n
relative(from, to) ==
  LET n == CommonPrefix(from, to)
  IN  [ i \in 1..(Len(from) - n) |-> ".." ] \o SubSeq(to, n + 1, Len(to))

\* processSyncItem: relativePath = path.relative(this.config.syncFolder,
\* item.filePath); libraryId = relativePath.split(path.sep)[0]
mapEvent(f, filePath) ==
  LET relativePath == relative(f.service, filePath)
  IN  [ filePath |-> filePath, libraryId |-> relativePath[1],
        relativePath |-> relativePath ]

\* The folders a user may pick, and the files the watcher reports events for,
\* below the folder it watches.
Folders == { << "home", "s" >>, << "home", "t" >>, << "mnt" >> }
WatchedFiles == { << "L1", "a" >>, << "L2", "sub", "b" >> }

FolderInit ==
  /\ queue = << >>
  /\ storeQueue = << >>
  /\ conflicts = << >>
  /\ storeConflicts = << >>
  /\ status = InitialStatus
  /\ isProcessing = FALSE
  /\ worker = IdleWorker
  /\ pass = [ p \in Slots |-> IdlePass ]
  /\ localFs = << >>
  /\ remoteFs = << >>
  /\ settled = FALSE
  /\ now = ClockStart
  /\ env = [ calls |-> MaxCalls, nextId |-> 1 ]
  /\ disk = << >>
  /\ cloud = << >>
  /\ resolving = IdleResolve
  /\ upload = IdleUpload
  /\ \E f \in Folders :
       folders = [ IdleFolders EXCEPT !.store = f, !.service = f, !.watcher = f ]

FolderFrame ==
  /\ UNCHANGED << conflicts, storeConflicts, now, env >>
  /\ UNCHANGED << syncVars, resolverVars, clientVars >>

\* settings:selectSyncFolder, the dialog answered with folder f:
\* store.set('syncFolder', f); fileWatcher.updateSyncFolder(f)
selectSyncFolder(f) ==
  /\ folders' = [ folders EXCEPT !.store = f, !.watcher = f ]
  /\ FolderFrame

\* settings:set('syncFolder', f): store.set(key, value)
settingsSet(f) ==
  /\ folders' = [ folders EXCEPT !.store = f ]
  /\ FolderFrame

\* The watcher reports a file below the folder it watches; onFileChange
\* hands the path to queueSync, and processSyncItem maps it.
fileEvent(file) ==
  /\ folders' = [ folders EXCEPT !.mapped = mapEvent(folders, folders.watcher \o file) ]
  /\ FolderFrame

\* The application starts again: initializeServices gives the stored folder
\* to SyncService and to FileWatcher.
initializeServices ==
  /\ folders' = [ folders EXCEPT !.service = folders.store,
                                 !.watcher = folders.store, !.mapped = << >> ]
  /\ FolderFrame

FolderNext ==
  \/ \E f \in Folders : selectSyncFolder(f)
  \/ \E f \in Folders : settingsSet(f)
  \/ \E file \in WatchedFiles : fileEvent(file)
  \/ initializeServices

FolderSpec == FolderInit /\ [][FolderNext]_vars

TypeOK ==
  /\ \A i \in 1..Len(queue) :
       /\ queue[i].status \in { "pending", "syncing", "error" }
       /\ queue[i].retries \in 0..MaxRetries
  /\ worker.pc \in { "idle", "while", "settled", "await" }
  /\ \A p \in Slots : pass[p].pc \in { "idle", "nextlib", "browse", "files",
                                       "download", "upload", "drain", "finish" }
  /\ isProcessing = (worker.pc # "idle")

\* One continuation at a time: the event loop runs one piece of code.
OneContinuation ==
  Cardinality({ p \in Slots : PassBusy(p) }) + (IF WorkerBusy THEN 1 ELSE 0) <= 1

\* ------------------------------------------------------------- claims --
QueueIds(q) == { q[i].id : i \in 1..Len(q) }
ItemOf(q, id) == q[IndexOfId(q, id)]

\* Item id is in the queue before and after the step.
Stays(id) == id \in QueueIds(queue) /\ id \in QueueIds(queue')

\* The step marks item id syncing: the worker starts a dispatch of it.
Dispatched(id) ==
  /\ Stays(id)
  /\ ItemOf(queue, id).status # "syncing"
  /\ ItemOf(queue', id).status = "syncing"

\* The step ends a dispatch of item id with a failure: the worker was
\* dispatching it, goes on with its loop, and the item is still queued.
DispatchFailed(id) ==
  /\ Stays(id)
  /\ worker.pc \in { "await", "settled" }
  /\ worker.item = id
  /\ worker'.pc = "while"

NewErrors ==
  { id \in QueueIds(queue') :
      /\ ItemOf(queue', id).status = "error"
      /\ ~ (id \in QueueIds(queue) /\ ItemOf(queue, id).status = "error") }

\* C1: an item whose dispatch fails every time is dispatched three times: a
\* dispatch starts only from pending with fewer than 3 retries, each failed
\* dispatch adds one retry and leads to pending below 3 retries and to error
\* at 3, an item in error has exactly 3 retries and is never dispatched or
\* changed again, and errorItems grows by exactly 1 when an item lands in error.
C1_RetryBound ==
  /\ [](\A i \in 1..Len(queue) :
          /\ queue[i].status = "error" <=> queue[i].retries = 3
          /\ queue[i].retries \in 0..3)
  /\ [][ /\ \A id \in QueueIds(queue) :
              /\ Dispatched(id) =>
                   /\ ItemOf(queue, id).status = "pending"
                   /\ ItemOf(queue, id).retries < 3
                   /\ ItemOf(queue', id).retries = ItemOf(queue, id).retries
              /\ DispatchFailed(id) =>
                   /\ ItemOf(queue', id).retries = ItemOf(queue, id).retries + 1
                   /\ ItemOf(queue', id).status =
                        IF ItemOf(queue, id).retries = 2 THEN "error" ELSE "pending"
              /\ ItemOf(queue, id).status = "error" =>
                   /\ Stays(id)
                   /\ ItemOf(queue', id) = ItemOf(queue, id)
         /\ NewErrors # {} =>
              /\ Cardinality(NewErrors) = 1
              /\ status'.errorItems = status.errorItems + 1
         /\ status'.errorItems > status.errorItems => NewErrors # {}
       ]_vars

\* C1 witness: an item has failed three times and is in error, counted once.
C1_Witness ==
  \E i \in 1..Len(queue) :
    /\ queue[i].status = "error"
    /\ queue[i].retries = 3
    /\ status.errorItems = 1

\* C3: at most one queue item has status syncing.
C3_AtMostOneSyncing == Cardinality(Indices(queue, "syncing")) <= 1

\* C7: the queue holds its items in the order they were enqueued, and the item
\* the worker marks syncing is the earliest-enqueued pending item.
C7_Fifo ==
  /\ [](\A i, j \in 1..Len(queue) : i < j => queue[i].id < queue[j].id)
  /\ [][ \A id \in QueueIds(queue) :
           Dispatched(id) =>
             \A j \in 1..Len(queue) :
               queue[j].status = "pending" => id <= queue[j].id ]_vars

\* C7 witness: the worker has just marked an item syncing while a later item
\* was pending behind it.
C7_Witness ==
  /\ worker.pc = "settled"
  /\ \E i, j \in 1..Len(queue) :
       /\ i < j
       /\ queue[i].id = worker.item
       /\ queue[i].status = "syncing"
       /\ queue[j].status = "pending"

\* C8: while sync is paused no other item changes from pending to syncing:
\* the only dispatch that may start is of the item the worker had in flight.
C8_PauseStartsNothing ==
  [][ status.isPaused /\ status'.isPaused =>
        \A id \in QueueIds(queue) : Dispatched(id) => id = worker.item ]_vars

\* The library and the entry / local file a pass is working on.
PassLib(p) == syncedLibraries[pass[p].lib]
PassEntry(p) == pass[p].listing[pass[p].k]
PassLocalOnly(p) == LocalOnly(PassLib(p), pass[p].listing, pass[p].snap)

\* Pass p is at a remote entry that its local snapshot holds.
AtPresentEntry(p) ==
  /\ pass[p].pc = "files"
  /\ pass[p].k <= Len(pass[p].listing)
  /\ LocalPathOf(PassLib(p), PassEntry(p).path) \in SnapPaths(pass[p].snap)

EntryDelta(p) ==
  Abs(SnapStat(pass[p].snap, LocalPathOf(PassLib(p), PassEntry(p).path)).mtimeMs
      - PassEntry(p).updated_at)

\* The step makes pass p start a download or an upload, of local path lp.
PassStartsDownload(p, lp) ==
  /\ pass[p].pc = "files" /\ pass'[p].pc = "download"
  /\ lp = LocalPathOf(PassLib(p), PassEntry(p).path)
PassStartsUpload(p, lp) ==
  /\ pass[p].pc = "files" /\ pass'[p].pc = "upload"
  /\ lp = PassLocalOnly(p)[pass[p].u].path

\* The step makes the worker start an upload of local path lp.
WorkerStartsUpload(lp) ==
  /\ worker.pc = "while" /\ worker'.pc = "await"
  /\ lp = ItemOf(queue', worker'.item).filePath

\* Local file lp and its remote file both exist, more than 1000 ms apart.
Diverged(lp) ==
  /\ lp \in DOMAIN localFs
  /\ RemoteKeyOf(lp) \in DOMAIN remoteFs
  /\ Abs(localFs[lp] - remoteFs[RemoteKeyOf(lp)]) > 1000

AllLocalPaths ==
  { LocalOrder[i] : i \in 1..Len(LocalOrder) }
    \cup { LocalPathOf(syncedLibraries[l], RemoteOrder[i]) :
             l \in 1..Len(syncedLibraries), i \in 1..Len(RemoteOrder) }

\* C4, as claimed: a file that exists locally and remotely more than 1000 ms
\* apart is neither uploaded nor downloaded, by a pass or by the worker.
C4_NoTransferWhileDiverged ==
  [][ \A lp \in AllLocalPaths :
        Diverged(lp) =>
          /\ ~ WorkerStartsUpload(lp)
          /\ \A p \in Slots : ~ PassStartsDownload(p, lp) /\ ~ PassStartsUpload(p, lp)
    ]_vars

\* C4, amended: a pass starts no download of a file its local snapshot holds
\* and no upload of a file its remote listing holds; in particular it
\* transfers no file that it saw on both sides more than 1000 ms apart.
C4_PassLeavesBothSided ==
  [][ \A p \in Slots, lp \in AllLocalPaths :
        /\ PassStartsDownload(p, lp) => lp \notin SnapPaths(pass[p].snap)
        /\ PassStartsUpload(p, lp) =>
             /\ lp \in SnapPaths(pass[p].snap)
             /\ \A i \in 1..Len(pass[p].listing) :
                  LocalPathOf(PassLib(p), pass[p].listing[i].path) # lp
    ]_vars

\* C4 witness: a pass has gone past an entry it saw on both sides more than
\* 1000 ms apart, and is uploading a local-only file of the same library.
C4_Witness ==
  \E p \in Slots :
    /\ pass[p].pc = "upload"
    /\ \E i \in 1..Len(pass[p].listing) :
         LET lp == LocalPathOf(PassLib(p), pass[p].listing[i].path)
         IN  /\ lp \in SnapPaths(pass[p].snap)
             /\ Abs(SnapStat(pass[p].snap, lp).mtimeMs
                    - pass[p].listing[i].updated_at) > 1000

\* C5: for a remote entry present in the local snapshot, the pass records a
\* conflict if and only if |L - R| > 1000, and starts no transfer for it.
C5_ConflictThreshold ==
  [][ \A p \in Slots :
        AtPresentEntry(p) =>
          LET cid == << PassLib(p), PassEntry(p).id >>
          IN  /\ EntryDelta(p) > 1000 => cid \in ConflictIds(conflicts')
              /\ EntryDelta(p) <= 1000 => conflicts' = conflicts
              /\ cid \in ConflictIds(conflicts) => conflicts' = conflicts
              /\ storeConflicts' = conflicts'
              /\ pass'[p].pc = "files"
              /\ localFs' = localFs /\ remoteFs' = remoteFs
    ]_vars

\* C5 witness: a pass has gone past an entry exactly 1000 ms apart from the
\* local file and no conflict is stored for it.
C5_Witness ==
  \E p \in Slots :
    /\ pass[p].pc = "files"
    /\ pass[p].k > 1
    /\ LET e == pass[p].listing[pass[p].k - 1]
           lp == LocalPathOf(PassLib(p), e.path)
       IN  /\ lp \in SnapPaths(pass[p].snap)
           /\ Abs(SnapStat(pass[p].snap, lp).mtimeMs - e.updated_at) = 1000
           /\ << PassLib(p), e.id >> \notin ConflictIds(conflicts)

\* C6: a pass that began after an error-free pass, nothing else having changed
\* a file or the conflict store since, starts no download, no upload and adds
\* no conflict.
C6_Idempotent ==
  [][ \A p \in Slots :
        pass[p].after /\ settled /\ pass[p].pc = "files" =>
          /\ conflicts' = conflicts
          /\ pass'[p].pc \notin { "download", "upload" }
    ]_vars

\* C9: a failure in one library does not end the pass: a pass leaves only
\* through its last lines, by then it has called syncLibrary for every
\* library and processQueue, and its last step sets lastSync and clears
\* isRunning.
C9_LibraryFailureIsolated ==
  /\ [](\A p \in Slots :
          pass[p].pc \in { "drain", "finish" } =>
            /\ pass[p].visited = 1..Len(syncedLibraries)
            /\ pass[p].drained)
  /\ [][ \A p \in Slots :
           /\ pass[p].pc = "finish" =>
                /\ pass'[p].pc = "idle"
                /\ status'.lastSync = now
                /\ ~ status'.isRunning
           /\ pass[p].pc \in { "browse", "download", "upload" }
                /\ pass'[p].pc \notin { pass[p].pc, "files" } =>
                \/ pass'[p].pc = "nextlib" /\ pass'[p].visited = pass[p].visited
                \/ pass' = [ q \in Slots |-> IdlePass ] /\ status' = InitialStatus
       ]_vars

\* C9 witness: a pass in which a library failed is at its last lines.
C9_Witness ==
  \E p \in Slots : pass[p].pc = "finish" /\ ~ pass[p].clean

\* C10: when an unlink item of a file that is gone locally leaves the queue
\* after its dispatch, the remote file of its path is gone.
C10_UnlinkDeletesRemote ==
  [][ \A id \in QueueIds(queue) :
        /\ worker.pc = "settled" /\ worker.item = id
        /\ ItemOf(queue, id).eventType = "unlink"
        /\ ItemOf(queue, id).filePath \notin DOMAIN localFs
        /\ id \notin QueueIds(queue')
        => RemoteKeyOf(ItemOf(queue, id).filePath) \notin DOMAIN remoteFs'
    ]_vars

\* C2: every queued item is in the end removed or in error with 3 retries.
\* The claim's provisos (remote calls return, sync is not paused for ever)
\* are granted in the strongest form: besides removed and error, a pending
\* item that only waits for the next trigger of a drain counts as served.
C2_NoItemDropped ==
  \A id \in 1..MaxCalls :
    [](id \in QueueIds(queue) =>
         <>( \/ id \notin QueueIds(queue)
             \/ ItemOf(queue, id).status = "error" /\ ItemOf(queue, id).retries = 3
             \/ ItemOf(queue, id).status = "pending"
                  /\ (status.isPaused \/ ~ isProcessing) ))

\* C14: a library reconciled without an error in a pass without an error: the
\* files uploaded are the snapshot's paths that no remote entry maps to, each
\* once; the files downloaded are the local paths of the remote entries the
\* snapshot does not hold, each once; no file is both.
ListedPaths(p) ==
  { << PassLib(p) >> \o pass[p].listing[i].path : i \in 1..Len(pass[p].listing) }
SeqSet(q) == { q[i] : i \in 1..Len(q) }
NoRepeat(q) == \A i, j \in 1..Len(q) : q[i] = q[j] => i = j
C14_TransferSets ==
  /\ [](\A p \in Slots :
          pass[p].pc \in { "files", "download", "upload" } =>
            /\ NoRepeat(pass[p].uploaded) /\ NoRepeat(pass[p].downloaded)
            /\ SeqSet(pass[p].uploaded) \subseteq SnapPaths(pass[p].snap) \ ListedPaths(p)
            /\ SeqSet(pass[p].downloaded) \subseteq ListedPaths(p) \ SnapPaths(pass[p].snap))
  /\ [][ \A p \in Slots :
           pass[p].pc = "files" /\ pass'[p].pc = "nextlib" /\ pass'[p].clean =>
             /\ SeqSet(pass[p].uploaded) = SnapPaths(pass[p].snap) \ ListedPaths(p)
             /\ SeqSet(pass[p].downloaded) = ListedPaths(p) \ SnapPaths(pass[p].snap)
       ]_vars

\* C14 witness: a pass without an error has left a library in which it
\* uploaded a file, after a library in which it downloaded one.
C14_Witness ==
  \E p \in Slots :
    /\ pass[p].pc = "nextlib" /\ pass[p].clean
    /\ pass[p].uploaded # << >>
    /\ \E lp \in DOMAIN localFs : Head(lp) # PassLib(p) /\ localFs[lp] >= ClockStart

C19_ItemStateMachine ==
  /\ [](\A i \in 1..Len(queue) :
          /\ queue[i].retries >= 0 /\ queue[i].retries <= 3
          /\ queue[i].status \in { "pending", "syncing", "error" }
          /\ (queue[i].status = "error") = (queue[i].retries = 3))
  /\ [][ \A id \in QueueIds(queue) :
           LET old == ItemOf(queue, id)
           IN  IF id \notin QueueIds(queue')
                 THEN old.status = "syncing"
                 ELSE LET new == ItemOf(queue', id)
                      IN  \/ new = old
                          \/ /\ old.status = "pending"
                             /\ new = [ old EXCEPT !.status = "syncing" ]
                          \/ /\ old.status = "syncing"
                             /\ new = [ old EXCEPT !.status = "pending",
                                                   !.retries = @ + 1 ]
                          \/ /\ old.status = "syncing"
                             /\ new = [ old EXCEPT !.status = "error",
                                                   !.retries = 3 ]
                             /\ old.retries = 2
                          \/ /\ old.status = "syncing"
                             /\ new = [ old EXCEPT !.status = "pending" ]
                             /\ queue' = storeQueue
       ]_vars

\* C19 witness: an item is in error while a later item is being dispatched.
C19_Witness ==
  \E i, j \in 1..Len(queue) :
    /\ i < j
    /\ queue[i].status = "error" /\ queue[i].retries = 3
    /\ queue[j].status = "syncing"
    /\ worker.pc = "await" /\ worker.item = queue[j].id

\* C20: in every state getStatus can observe, pendingItems is the number of
\* pending items and errorItems the number of items in error.
C20_CountersDerived ==
  ~ Busy =>
    /\ status.pendingItems = Cardinality({ i \in 1..Len(queue) : queue[i].status = "pending" })
    /\ status.errorItems = Cardinality({ i \in 1..Len(queue) : queue[i].status = "error" })

\* C13: first sync of new libraries.  When the first pass ends, every file
\* the remote libraries held exists locally at its relative path, no conflict
\* is stored and the queue is empty.
C13_FirstSync ==
  [][ \A p \in Slots :
        pass[p].pc = "finish" /\ status.lastSync = NoSync =>
          /\ \A key \in DOMAIN remoteFs :
               remoteFs[key] < ClockStart => << key[1] >> \o key[2] \in DOMAIN localFs
          /\ conflicts = << >> /\ storeConflicts = << >>
          /\ queue' = << >>
    ]_vars

\* The step ends a resolveConflict call made with this resolution.
ResolveEnds(resolution) ==
  /\ resolving'.pc = "idle"
  /\ resolving'.resolution = resolution
  /\ resolving.pc # "idle" \/ (env'.calls # env.calls /\ now' = now)

\* <base>_local_<timestamp><ext> for the paths of the stored conflicts.
ExpectedCopy(remotePath, t) ==
  << "s", "/", "L", "/" >> \o
    ( CASE remotePath = << "a", ".", "t" >> -> << "a", "_local_", t, ".", "t" >>
        [] remotePath = << "a" >>           -> << "a", "_local_", t >>
        [] remotePath = << ".", "a" >>      -> << ".", "a", "_local_", t >> )

\* C11: a keep_both resolution of a stored conflict whose local file exists,
\* ended without a failed remote call, leaves the original path with the
\* remote content and one more file, <base>_local_<timestamp><ext> in the same
\* directory, with the content the local file had.
C11_KeepBoth ==
  [][ \A i \in 1..Len(conflicts) :
        LET c == conflicts[i]
            lp == c.localPath
            np == ExpectedCopy(c.remotePath, now)
        IN  /\ ResolveEnds("keep_both")
            /\ resolving'.id = c.id
            /\ resolving'.outcome # "failed"
            /\ resolving.pc = "idle" => lp \in DOMAIN disk
            => /\ lp \in DOMAIN disk'
               /\ disk'[lp] = cloud[<< ResolveLibrary, c.remotePath >>].data
               /\ np \in DOMAIN disk'
               /\ disk'[np] = IF resolving.pc = "idle" THEN disk[lp] ELSE disk[np]
               /\ DOMAIN disk' = (DOMAIN disk) \cup { lp, np }
    ]_vars

\* C12: a keep_remote resolution of a stored conflict, ended without a failed
\* remote call, leaves the remote content at conflict.localPath and the
\* conflict neither in memory nor in the persisted syncConflicts.
C12_KeepRemote ==
  [][ \A i \in 1..Len(conflicts) :
        LET c == conflicts[i]
        IN  /\ ResolveEnds("keep_remote")
            /\ resolving'.id = c.id
            /\ resolving'.outcome # "failed"
            => /\ c.localPath \in DOMAIN disk'
               /\ disk'[c.localPath] = cloud[<< ResolveLibrary, c.remotePath >>].data
               /\ c.id \notin ConflictIds(conflicts')
               /\ c.id \notin ConflictIds(storeConflicts')
    ]_vars

\* The remote calls of the upload of one kind, in the order they were made.
CallsOf(name) == SelectSeq(upload.calls, LAMBDA c : c.call = name)
SessionCalls == SelectSeq(upload.calls, LAMBDA c : c.call # "initUpload")

\* C15: the remote calls of one chunked upload are initUpload (once more
\* after a conflict), then uploadPart 1, 2, ... in order, then completeUpload:
\* part k + 1 is sent only after part k succeeded, completeUpload only after
\* all N parts succeeded and with exactly their N results in order; when a
\* part fails no call follows it and uploadFile fails.
C15_CallSequence ==
  /\ [](LET rest == SessionCalls
            N == upload.total_chunks
        IN  /\ \A j \in 1..Len(upload.calls) :
                 upload.calls[j].call = "initUpload"
                   => j <= 2 /\ \A k \in 1..j : upload.calls[k].call = "initUpload"
            /\ \A j \in 1..Len(rest) :
                 \/ /\ j <= N
                    /\ rest[j].call = "uploadPart"
                    /\ rest[j].part_number = j
                    /\ Len(upload.parts) >= j - 1
                 \/ /\ j = N + 1
                    /\ rest[j].call = "completeUpload"
                    /\ Len(rest[j].parts) = N
                    /\ \A k \in 1..N :
                         /\ rest[j].parts[k].part_number = k
                         /\ rest[j].parts[k].size_bytes
                              = rest[k].chunk.to - rest[k].chunk.from
            /\ \A k \in 1..Len(upload.parts) : upload.parts[k].part_number = k
            /\ Len(upload.parts) <= Len(CallsOf("uploadPart"))
            /\ ( /\ upload.pc = "done"
                 /\ Len(CallsOf("uploadPart")) > Len(upload.parts) )
                 => upload.result = "error" /\ CallsOf("completeUpload") = << >>)
  /\ [][upload.pc = "done" => upload' = upload]_vars

\* The second of three parts failed after the first succeeded.
C15_Witness ==
  /\ upload.pc = "done"
  /\ upload.result = "error"
  /\ upload.total_chunks = 3
  /\ Len(upload.parts) = 1
  /\ Len(upload.calls) = 3
  /\ upload.calls[3].call = "uploadPart"
  /\ upload.calls[3].part_number = 2

\* C16: for a file of S > 0 bytes and a session of chunk size C > 0 and
\* ceil(S / C) chunks, the parts sent are the ranges [i*C, min((i+1)*C, S)):
\* non-empty, contiguous from 0, every one but the last of size C, the last
\* ending at S, and the bytes reported as loaded after the last part are S.
C16_ChunkMath ==
  LET S == upload.size
      C == upload.chunk_size
      N == upload.total_chunks
      sent == CallsOf("uploadPart")
  IN  (S > 0 /\ C > 0 /\ N * C >= S /\ (N - 1) * C < S)
        => /\ \A j \in 1..Len(sent) :
                /\ sent[j].chunk.from = (j - 1) * C
                /\ sent[j].chunk.to = IF j * C < S THEN j * C ELSE S
                /\ sent[j].chunk.to > sent[j].chunk.from
                /\ sent[j].chunk.from = IF j = 1 THEN 0 ELSE sent[j - 1].chunk.to
                /\ j < N => sent[j].chunk.to - sent[j].chunk.from = C
                /\ j = N => sent[j].chunk.to = S
           /\ Len(sent) <= N
           /\ upload.pc = "complete" => Len(sent) = N
           /\ Len(upload.parts) = N => upload.loaded = S

\* The 10,000,000-byte file went up in three parts of 4,000,000 bytes.
C16_Witness ==
  /\ upload.size = 10000000
  /\ upload.chunk_size = 4000000
  /\ upload.total_chunks = 3
  /\ upload.result = "file"
  /\ Len(CallsOf("uploadPart")) = 3
  /\ upload.loaded = 10000000

\* C17: after initUpload answered with a duplicate conflict, uploadFile
\* sends uploadPart or completeUpload only if onConflict returned overwrite
\* or rename and a second initUpload carrying that policy returned a session;
\* when onConflict returns cancel uploadFile returns null, and without an
\* onConflict callback it fails with an error, in both cases after the one
\* initUpload only.
C17_NoAutoResolve ==
  (upload.answers # << >> /\ upload.answers[1] = "conflict")
    => /\ SessionCalls # << >>
            => /\ upload.onConflict \in { "overwrite", "rename" }
               /\ Len(upload.calls) >= 2
               /\ upload.calls[2].call = "initUpload"
               /\ upload.calls[2].on_duplicate = upload.onConflict
               /\ upload.answers = << "conflict", "session" >>
       /\ (upload.pc = "done" /\ upload.onConflict = "cancel")
            => upload.result = "null" /\ Len(upload.calls) = 1
       /\ (upload.pc = "done" /\ upload.onConflict = "none")
            => upload.result = "error" /\ Len(upload.calls) = 1

\* The callback chose rename and the upload went through on the second
\* session.
C17_Witness ==
  /\ upload.answers = << "conflict", "session" >>
  /\ upload.onConflict = "rename"
  /\ upload.result = "file"
  /\ Len(CallsOf("uploadPart")) >= 2

\* An upload of local file lp is in flight, started by a reconciliation pass
\* (a local-only file of syncFiles) or by the worker (an add or change item).
InFlightByPass(lp) ==
  \E p \in Slots :
    /\ pass[p].pc = "upload"
    /\ PassLocalOnly(p)[pass[p].u].path = lp
InFlightByWorker(lp) ==
  /\ worker.pc = "await"
  /\ ItemOf(queue, worker.item).filePath = lp

\* C21: passes and drains interleave without mutual exclusion.  While a pass
\* has an upload of local file lp in flight, the worker that reaches an add
\* or change item of lp starts its own upload of lp; while the worker has
\* one in flight, the pass that reaches lp as a local-only file starts its
\* own.  (The state with both in flight is C21_Witness.)
C21_NoMutualExclusion ==
  [][ /\ worker.pc = "while"
        => \A lp \in DOMAIN localFs :
             ( /\ InFlightByPass(lp)
               /\ \E i \in 1..Len(queue) :
                    /\ queue[i].status = "pending"
                    /\ queue[i].filePath = lp
                    /\ queue[i].eventType \in { "add", "change" }
                    /\ \A j \in 1..(i - 1) : queue[j].status # "pending" )
               => WorkerStartsUpload(lp) /\ InFlightByPass(lp)'
      /\ worker.pc = "await"
        => \A p \in Slots :
             ( /\ pass[p].pc = "files"
               /\ pass[p].k > Len(pass[p].listing)
               /\ pass[p].u <= Len(PassLocalOnly(p))
               /\ InFlightByWorker(PassLocalOnly(p)[pass[p].u].path) )
               => LET lp == PassLocalOnly(p)[pass[p].u].path
                  IN  PassStartsUpload(p, lp) /\ InFlightByWorker(lp)'
    ]_vars

\* Both uploads of the same local file are in flight.
C21_Witness ==
  \E lp \in AllLocalPaths : InFlightByPass(lp) /\ InFlightByWorker(lp)

\* C22: at most one reconciliation pass is in progress, and isRunning is
\* true for as long as a pass is in progress.
C22_OnePass ==
  /\ Cardinality({ p \in Slots : pass[p].pc # "idle" }) <= 1
  /\ (\E p \in Slots : pass[p].pc # "idle") => status.isRunning

\* C23: no lost wake-up: whenever no drain is in progress and sync is not
\* paused, the queue has no pending item.
C23_NoLostWakeup ==
  (~ isProcessing /\ ~ status.isPaused) => Indices(queue, "pending") = {}

\* The library a stored conflict was recorded for: its localPath is
\* <syncFolder>/<libraryId>/<remotePath>.
LibraryOf(c) == SubSeq(c.localPath, 3, Len(c.localPath) - Len(c.remotePath) - 1)

\* C24: conflict ids round-trip: the transfer of resolveConflict is addressed
\* to the library id and (a download) to the file id the conflict was recorded
\* for, also when the ids hold "-".
C24_IdRoundTrip ==
  resolving.pc \in { "upload", "download" }
    => LET c == ConflictOf(conflicts, resolving.id)
       IN  /\ resolving.libraryId = LibraryOf(c)
           /\ resolving.pc = "download"
                => resolving.remotePath = cloud[<< LibraryOf(c), c.remotePath >>].id

\* The step is a call of resolveConflict (up to its first await or its end).
ResolveCalled ==
  /\ resolving.pc = "idle"
  /\ env'.calls # env.calls
  /\ now' = now
Policies3 == { "keep_local", "keep_remote", "keep_both" }

\* C25: a conflict leaves the memory and the store only when a transfer of a
\* keep_local, keep_remote or keep_both resolution succeeded; a call with
\* another resolution value or with an unknown conflict id leaves the
\* conflicts, the store, the queue and the local files unchanged.
C25_RemovedOnlyWhenApplied ==
  [][ /\ (conflicts' # conflicts \/ storeConflicts' # storeConflicts)
           => /\ resolving.pc \in { "upload", "download" }
              /\ resolving.resolution \in Policies3
              /\ resolving'.outcome = "removed"
      /\ ( /\ ResolveCalled
           /\ \/ resolving'.resolution \notin Policies3
              \/ resolving'.id \notin ConflictIds(conflicts) )
           => UNCHANGED << conflicts, storeConflicts, queue, storeQueue, disk >>
    ]_vars

\* C26: when a resolution of a stored conflict whose local file exists
\* fails, with any of the three policies, the conflict is still in memory
\* and in the store and the file at conflict.localPath still has the content
\* it had.
C26_FailureChangesNothing ==
  [][ \A i \in 1..Len(conflicts) :
        LET c == conflicts[i]
        IN  ( /\ resolving.pc # "idle" \/ ResolveCalled
              /\ resolving'.pc = "idle"
              /\ resolving'.id = c.id
              /\ resolving'.resolution \in Policies3
              /\ resolving'.outcome \in { "failed", "threw" }
              /\ c.localPath \in DOMAIN disk )
              => /\ c.id \in ConflictIds(conflicts')
                 /\ c.id \in ConflictIds(storeConflicts')
                 /\ c.localPath \in DOMAIN disk'
                 /\ disk'[c.localPath] = disk[c.localPath]
    ]_vars

\* C27: the worker and the pass address a local file alike: a worker upload
\* of local file lp that succeeds stores the file in the library and under
\* the remote path under which a pass uploads lp as a local-only file, and
\* that remote path joined onto the library folder is lp.
C27_SameAddress ==
  [][ \A lp \in AllLocalPaths :
        (InFlightByWorker(lp) /\ IndexOfId(queue', worker.item) = 0)
          => LET lib == Head(lp)
             IN  /\ remoteFs' = Put(remoteFs, << lib, RelativePath(lib, lp) >>, now)
                 /\ LocalPathOf(lib, RelativePath(lib, lp)) = lp
    ]_vars

\* The step is the failure of the transfer pass p awaits.
TransferFailed(p) ==
  /\ pass[p].pc \in { "download", "upload" }
  /\ pass'[p].pc \notin { pass[p].pc, "idle" }
  /\ pass'[p].k = pass[p].k
  /\ pass'[p].u = pass[p].u

\* Pass p has more to do in its library after the transfer it awaits: a
\* remote entry not yet compared, or a local-only file not yet uploaded.
MoreInLibrary(p) ==
  IF pass[p].pc = "download"
    THEN pass[p].k < Len(pass[p].listing) \/ Len(PassLocalOnly(p)) > 0
    ELSE pass[p].u < Len(PassLocalOnly(p))

\* C28: a failed transfer of one file does not stop the reconciliation of
\* the other files of the library: the pass goes on in syncFiles of the same
\* library.
C28_FailureDoesNotStopLibrary ==
  [][ \A p \in Slots :
        (TransferFailed(p) /\ MoreInLibrary(p))
          => pass'[p].pc = "files" /\ pass'[p].lib = pass[p].lib
    ]_vars

\* C29: the sync folder SyncService maps file events with equals the folder
\* FileWatcher watches and the persisted syncFolder setting, so that a file
\* event is mapped to the library folder and the path below the watched
\* folder.
C29_OneSyncFolder ==
  /\ folders.service = folders.watcher
  /\ folders.watcher = folders.store
  /\ folders.mapped # << >>
       => \E file \in WatchedFiles :
            /\ folders.mapped.libraryId = file[1]
            /\ folders.mapped.relativePath = file

\* The ids of the items of a queue, in the order of the queue.
IdsOf(q) == [ i \in 1..Len(q) |-> q[i].id ]

\* C30: whenever the program is suspended, the persisted syncQueue holds the
\* ids of the queue in memory, in the same order, and the persisted
\* syncConflicts is the conflict list in memory.
C30_StoreMatchesMemory ==
  /\ IdsOf(storeQueue) = IdsOf(queue)
  /\ storeConflicts = conflicts

\* One item was given up after its retries, another is being uploaded, and a
\* conflict was recorded: all are in the store.
C30_Witness ==
  /\ Indices(queue, "error") # {}
  /\ Indices(queue, "syncing") # {}
  /\ conflicts # << >>
  /\ IdsOf(storeQueue) = IdsOf(queue)

=============================================================================
